---------------------------- MODULE Spec2Model ----------------------------
(***************************************************************************)
(* A model of proji's import pipeline and materialization engine:          *)
(*   - Project.Create             (pkg/proji/storage/models/project.go)    *)
(*   - Package.ImportFromRepo     (storage/models/package.go)              *)
(*   - ImportCollectionFromRepo   (storage/models/package.go)              *)
(*   - pickLabel                  (storage/models/package.go)              *)
(* Strings are sequences of one-character strings, so that Go's slicing,   *)
(* prefix tests and splits are computed rather than assumed.               *)
(***************************************************************************)
EXTENDS Integers, Sequences, FiniteSets, TLC

(***************************************************************************)
(* Bounds of the model.                                                    *)
(***************************************************************************)
MaxPlugins == 2

MaxTemplates == 2

MaxNameLen == 4

MaxTreeEntries == 3

MaxDeclared == 2

MaxRepoEntries == 2

MaxFetches == 3

(***************************************************************************)
(* String helpers (Go: strings.HasPrefix, filepath.Join, filepath.Clean).  *)
(***************************************************************************)
HasPrefix(s, pre) ==
    /\ Len(pre) <= Len(s)
    /\ SubSeq(s, 1, Len(pre)) = pre

RECURSIVE StripTrailingSlashes(_)
StripTrailingSlashes(s) ==
    IF Len(s) > 1 /\ s[Len(s)] = "/"
    THEN StripTrailingSlashes(SubSeq(s, 1, Len(s) - 1))
    ELSE s

RECURSIVE SqueezeSlashes(_)
SqueezeSlashes(s) ==
    IF Len(s) < 2 THEN s
    ELSE IF s[1] = "/" /\ s[2] = "/"
         THEN SqueezeSlashes(Tail(s))
         ELSE <<s[1]>> \o SqueezeSlashes(Tail(s))

\* The directory a path names: repeated and trailing slashes do not matter.
Clean(path) == StripTrailingSlashes(SqueezeSlashes(path))

\* A relative path is resolved against the process working directory.
Resolve(wdir, path) ==
    IF Len(path) > 0 /\ path[1] = "/"
    THEN Clean(path)
    ELSE Clean(wdir \o <<"/">> \o path)

\* The proper ancestors of a relative destination, e.g. s/m -> {s}.
Parents(dest) ==
    { SubSeq(dest, 1, k - 1) : k \in { i \in 2..Len(dest) : dest[i] = "/" } }

(***************************************************************************)
(* pickLabel (storage/models/package.go).                                  *)
(***************************************************************************)
UpperChars ==
    <<"A", "B", "C", "D", "E", "F", "G", "H", "I", "J", "K", "L", "M",
      "N", "O", "P", "Q", "R", "S", "T", "U", "V", "W", "X", "Y", "Z">>

LowerChars ==
    <<"a", "b", "c", "d", "e", "f", "g", "h", "i", "j", "k", "l", "m",
      "n", "o", "p", "q", "r", "s", "t", "u", "v", "w", "x", "y", "z">>

\* unicode.IsUpper, on the ASCII range the model draws names from.
IsUpper(c) == \E i \in DOMAIN UpperChars : UpperChars[i] = c

IsLower(c) == \E i \in DOMAIN LowerChars : LowerChars[i] = c

ToLowerChar(c) ==
    IF IsUpper(c)
    THEN LowerChars[CHOOSE i \in DOMAIN UpperChars : UpperChars[i] = c]
    ELSE c

\* unicode.ToUpper
ToUpperChar(c) ==
    IF IsLower(c)
    THEN UpperChars[CHOOSE i \in DOMAIN LowerChars : LowerChars[i] = c]
    ELSE c

\* strings.ToLower
ToLower(s) == [i \in DOMAIN s |-> ToLowerChar(s[i])]

\* strings.Index, 1-based; 0 when sep does not occur in s.
IndexOf(s, sep) ==
    LET hits == { i \in 1..(Len(s) - Len(sep) + 1) :
                     SubSeq(s, i, i + Len(sep) - 1) = sep }
    IN  IF hits = {} THEN 0 ELSE CHOOSE i \in hits : \A j \in hits : i <= j

\* strings.Split(s, sep) for a non-empty sep.
RECURSIVE Split(_, _)
Split(s, sep) ==
    LET i == IndexOf(s, sep) IN
    IF i = 0 THEN <<s>>
    ELSE <<SubSeq(s, 1, i - 1)>> \o Split(SubSeq(s, i + Len(sep), Len(s)), sep)

\* regexp `[A-Z][^A-Z]*`, FindAllString(s, -1): each match starts at an
\* uppercase letter and runs up to the next one.
RECURSIVE UpperRuns(_)
UpperRuns(s) ==
    IF s = <<>> THEN <<>>
    ELSE IF ~IsUpper(s[1]) THEN UpperRuns(Tail(s))
    ELSE LET later == { i \in 2..Len(s) : IsUpper(s[i]) }
             stop == IF later = {} THEN Len(s) + 1
                     ELSE CHOOSE i \in later : \A j \in later : i <= j
         IN  <<SubSeq(s, 1, stop - 1)>> \o UpperRuns(SubSeq(s, stop, Len(s)))

maxLabelLen == 4

labelSeparators == << <<"-">>, <<"_">>, <<".">>, <<" ">>, <<"%", "2", "0">> >>

\* The separator loop: parts is the first split with more than one part,
\* else the split by the last separator.
RECURSIVE SplitBySeparators(_, _)
SplitBySeparators(name, k) ==
    LET parts == Split(name, labelSeparators[k]) IN
    IF Len(parts) > 1 \/ k = Len(labelSeparators) THEN parts
    ELSE SplitBySeparators(name, k + 1)

Panic == [panic |-> TRUE, label |-> <<>>]

Label(l) == [panic |-> FALSE, label |-> l]

\* Initials taken from every part, however many there are.
InitialsOfAllParts(parts) ==
    IF \E i \in DOMAIN parts : Len(parts[i]) = 0
    THEN Panic
    ELSE Label(ToLower([i \in DOMAIN parts |-> parts[i][1]]))

\* `for i, part := range parts { if i > maxLabelLen { break }; label +=
\* string(part[0]) }` with 0-based i; part[0] of an empty part is an index
\* out of range, a run-time panic.
Initials(parts) ==
    LET used == { i \in DOMAIN parts : ~(i - 1 > maxLabelLen) } IN
    IF \E i \in used : Len(parts[i]) = 0
    THEN Panic
    ELSE Label(ToLower([i \in used |-> parts[i][1]]))

ForceUpperFirst(name) ==
    IF ~IsUpper(name[1])
    THEN <<ToUpperChar(name[1])>> \o Tail(name)
    ELSE name

pickLabel(packageName) ==
    LET nameLen == Len(packageName) IN
    IF nameLen < 2 THEN Label(ToLower(packageName))
    ELSE LET parts == SplitBySeparators(packageName, 1) IN
         IF Len(parts) > 1 THEN Initials(parts)
         ELSE LET forced == ForceUpperFirst(packageName)
                  runs == UpperRuns(forced) IN
              IF Len(runs) > 1 THEN Initials(runs)
              ELSE Label(ToLower(<<forced[1], forced[(nameLen \div 2) + 1],
                                   forced[nameLen]>>))

(***************************************************************************)
(* Project.Create: inputs.                                                 *)
(***************************************************************************)
Procs == {1, 2}

\* p.Name of the project each call creates.
ProjectName(p) == IF p = 1 THEN <<"p">> ELSE <<"q">>

\* Directories the process may be in when Create is called.
OrigDirs == { <<"/", "w">>, <<"/", "w", "s">> }

\* Values of the cwd argument: the caller's working directory as text, with
\* or without a trailing slash, or the empty string.
CwdArgs(dir) == { dir, dir \o <<"/">>, <<>> }

ExecNumbers == {-2, -1, 0, 1, 2}

PluginChoices == [Name : {<<"h">>}, ExecNumber : ExecNumbers]

TemplateChoices ==
    { [Path |-> <<>>,    Destination |-> <<"R">>,           IsFile |-> TRUE],
      [Path |-> <<>>,    Destination |-> <<"s", "/", "m">>, IsFile |-> FALSE],
      [Path |-> <<"t">>, Destination |-> <<"g">>,           IsFile |-> TRUE] }

SeqsUpTo(S, n) == UNION { [1..k -> S] : k \in 0..n }

VARIABLES
    wd,          \* the process working directory (global to the process)
    fs,          \* the filesystem: path -> [kind, data]
    plugins,     \* p.Class.Plugins
    templates,   \* p.Class.Templates
    origWd,      \* the directory that was current before Create was called
    cwdArg,      \* Create's cwd argument, per call
    deferred,    \* the argument captured by `defer os.Chdir(cwd)`, per call
    pc,          \* position of each Create call
    idx,         \* loop index of the running phase, per call
    ret,         \* what Create returned, per call
    log,         \* what each call did, in order
    labelName,   \* pickLabel: its packageName argument
    labelOut,    \* pickLabel: what the call produced
    labelPc,     \* pickLabel: "ready" before the call, "called" after
    collTree,       \* ImportCollectionFromRepo: the repository tree the importer loads
    collTemplates,  \* c.Templates of the pseudo-package, the configs/ entries
    collPc,         \* position of ImportCollectionFromRepo
    collIdx,        \* index of its spawning loop
    collWg,         \* its sync.WaitGroup counter
    collTask,       \* its import tasks: template index -> [pc, outcome]
    packageChannel, \* its channel of imported packages
    collErrs,       \* its channel of errors
    collRet,        \* what it returned: [packageList, errMsg]
    config,          \* ImportFromRepo: the Templates and Plugins the remote config declares
    repoTree,        \* the tree importer.LoadTreeEntries() yields
    c,               \* the receiving Package: [Templates, Plugins]
    importPc,        \* position of ImportFromRepo
    importIdx,       \* index of its loop over c.Templates
    rex,             \* TRUE once the regexp is compiled (rex != nil)
    treeLoads,       \* how many times the tree was loaded
    filtered,        \* the local `templates`: the filtered tree entries
    filesToDownload, \* [templates, plugins]: the two fetch lists
    err,             \* the function's err variable, captured by every goroutine
    errs,            \* the buffered error channel
    wg,              \* the sync.WaitGroup counter
    fetchTask,       \* the fetch goroutines: [fileType, file, pc, result]
    present,         \* the destinations that exist under the base config path
    presentAtStart,  \* ... when the operation began
    fetches,         \* the network fetches performed, in order
    importRet,       \* what ImportFromRepo returned
    filtImporter,  \* the tree filter: the platform of the importer
    filtTree,      \* its treeEntries argument
    filtFilters,   \* its filters argument: [isNil, list]
    filtOut,       \* the Templates it returned
    filtPc,        \* "ready" before the call, "called" after
    dirPath,       \* ImportFromFolderStructure: its path argument
    dirEntries,    \* the tree below path: relative path -> "file" or "dir"
    excludeDirs,   \* its excludeDirs argument
    folderPkg,     \* the receiving Package: [Name, Label, Templates, Plugins]
    folderRet,     \* what the call returned
    folderPc,      \* "ready", then "returned" or "panicked"
    confPath,      \* ImportFromConfig: its path argument
    confFiles,     \* the files that exist: path -> [size, wellFormed, fits, decoded]
    confPkg,       \* the receiving Package
    confBefore,    \* the receiving Package when the call began
    confRet,       \* what the call returned
    confPc         \* "ready" before the call, "returned" after

createVars ==
    <<wd, fs, plugins, templates, origWd, cwdArg, deferred, pc, idx, ret, log>>

labelVars == <<labelName, labelOut, labelPc>>

collVars ==
    <<collTree, collTemplates, collPc, collIdx, collWg, collTask,
      packageChannel, collErrs, collRet>>

importVars ==
    <<config, repoTree, c, importPc, importIdx, rex, treeLoads, filtered,
      filesToDownload, err, errs, wg, fetchTask, present, presentAtStart,
      fetches, importRet>>

filterVars == <<filtImporter, filtTree, filtFilters, filtOut, filtPc>>

folderVars ==
    <<dirPath, dirEntries, excludeDirs, folderPkg, folderRet, folderPc>>

configVars == <<confPath, confFiles, confPkg, confBefore, confRet, confPc>>

localVars == <<filterVars, folderVars, configVars>>

vars == <<createVars, labelVars, collVars, importVars, localVars>>

otherThanCreate == <<labelVars, collVars, importVars, localVars>>

otherThanLabel == <<createVars, collVars, importVars, localVars>>

otherThanColl == <<createVars, labelVars, importVars, localVars>>

otherThanImport == <<createVars, labelVars, collVars, localVars>>

remoteVars == <<createVars, labelVars, collVars, importVars>>

otherThanFilter == <<remoteVars, folderVars, configVars>>

otherThanFolder == <<remoteVars, filterVars, configVars>>

otherThanConfig == <<remoteVars, filterVars, folderVars>>

NoErr == [kind |-> "nil"]

Dir == [kind |-> "dir", data |-> FALSE]

EmptyFile == [kind |-> "file", data |-> FALSE]

CopiedFile == [kind |-> "file", data |-> TRUE]

Put(f, path, v) == [q \in DOMAIN f \cup {path} |-> IF q = path THEN v ELSE f[q]]

Event(p, e) == log' = [log EXCEPT ![p] = Append(@, e)]

(***************************************************************************)
(* Project.Create, one step per statement or loop iteration.               *)
(***************************************************************************)

\* A project folder made the way os.MkdirAll makes one: a folder that is
\* already there is no error.
CreateProjectFolderIfMissing(p) ==
    /\ pc[p] = "mkdir"
    /\ LET target == Resolve(wd, ProjectName(p)) IN
       /\ fs' = Put(fs, target, Dir)
       /\ IF target \in DOMAIN fs
          THEN UNCHANGED log
          ELSE Event(p, [kind |-> "mkdir", path |-> target])
       /\ pc' = [pc EXCEPT ![p] = "chdir"]
    /\ UNCHANGED <<ret, wd, plugins, templates, origWd, cwdArg, deferred, idx>>
    /\ UNCHANGED otherThanCreate

\* err := p.createProjectFolder(): os.Mkdir(p.Name, os.ModePerm)
CreateProjectFolder(p) ==
    /\ pc[p] = "mkdir"
    /\ LET target == Resolve(wd, ProjectName(p)) IN
       IF target \in DOMAIN fs
       THEN /\ ret' = [ret EXCEPT ![p] = [kind |-> "mkdir"]]
            /\ pc' = [pc EXCEPT ![p] = "done"]
            /\ UNCHANGED <<fs, log>>
       ELSE /\ fs' = Put(fs, target, Dir)
            /\ Event(p, [kind |-> "mkdir", path |-> target])
            /\ pc' = [pc EXCEPT ![p] = "chdir"]
            /\ UNCHANGED ret
    /\ UNCHANGED <<wd, plugins, templates, origWd, cwdArg, deferred, idx>>
    /\ UNCHANGED otherThanCreate

\* err = os.Chdir(p.Name)
EnterProjectFolder(p) ==
    /\ pc[p] = "chdir"
    /\ LET target == Resolve(wd, ProjectName(p)) IN
       \E ok \in BOOLEAN :
          IF ok /\ target \in DOMAIN fs
          THEN /\ wd' = target
               /\ Event(p, [kind |-> "chdir", path |-> target])
               /\ pc' = [pc EXCEPT ![p] = "slash"]
               /\ UNCHANGED ret
          ELSE /\ ret' = [ret EXCEPT ![p] = [kind |-> "chdir"]]
               /\ pc' = [pc EXCEPT ![p] = "done"]
               /\ UNCHANGED <<wd, log>>
    /\ UNCHANGED <<fs, plugins, templates, origWd, cwdArg, deferred, idx>>
    /\ UNCHANGED otherThanCreate

\* if cwd[:len(cwd)-1] != "/" { cwd += "/" }
AppendSlash(cwd) ==
    IF SubSeq(cwd, 1, Len(cwd) - 1) # <<"/">> THEN cwd \o <<"/">> ELSE cwd

\* cwd[:len(cwd)-1] is out of range for the empty string: a run-time panic.
SliceInRange(cwd) == Len(cwd) - 1 >= 0

\* The slash convenience and `defer os.Chdir(cwd)`. A panic here unwinds
\* Create before the deferred call is registered.
RegisterRestore(p) ==
    /\ pc[p] = "slash"
    /\ IF SliceInRange(cwdArg[p])
       THEN /\ deferred' = [deferred EXCEPT ![p] = AppendSlash(cwdArg[p])]
            /\ pc' = [pc EXCEPT ![p] = "pre"]
            /\ idx' = [idx EXCEPT ![p] = 1]
            /\ UNCHANGED ret
       ELSE /\ ret' = [ret EXCEPT ![p] = [kind |-> "panic"]]
            /\ pc' = [pc EXCEPT ![p] = "panicked"]
            /\ UNCHANGED <<deferred, idx>>
    /\ UNCHANGED <<wd, fs, plugins, templates, origWd, cwdArg, log>>
    /\ UNCHANGED otherThanCreate

\* A pre-hook test that lets ExecNumber = 0 through (`> 0` for `>= 0`).
IsPreHookIncludingZero(plugin) == ~(plugin.ExecNumber > 0)

\* preRunPlugins: `if plugin.ExecNumber >= 0 { continue }`
IsPreHook(plugin) == ~(plugin.ExecNumber >= 0)

\* postRunPlugins: `if plugin.ExecNumber <= 0 { continue }`
IsPostHook(plugin) == ~(plugin.ExecNumber <= 0)

\* A plugin loop that drops the error check and carries on.
AfterPluginIgnoringError(phase, ok) == phase

\* `if err != nil { return err }` after runPlugin: where the loop goes next.
AfterPlugin(phase, ok) == IF ok THEN phase ELSE "defer"

\* A Create that goes from the pre-hooks straight to the post-hooks.
AfterPreHooksSkippingTemplates == "post"

\* Create calls createFilesAndFolders once preRunPlugins returned nil.
AfterPreHooks == "tmpl"

\* Create calls postRunPlugins once createFilesAndFolders returned nil.
AfterTemplates == "post"

\* runPlugin(pluginPath) and the caller's `if err != nil { return err }`:
\* the plugin runs in the process working directory and may fail.
RunPlugin(p, phase) ==
    \E ok \in BOOLEAN :
       /\ Event(p, [kind |-> "plugin", phase |-> phase, i |-> idx[p],
                    ok |-> ok, wd |-> wd])
       /\ pc' = [pc EXCEPT ![p] = AfterPlugin(phase, ok)]
       /\ idx' = [idx EXCEPT ![p] = @ + 1]
       /\ ret' = IF ok THEN ret
                 ELSE [ret EXCEPT ![p] = [kind |-> "plugin", i |-> idx[p]]]

\* One iteration of preRunPlugins, or its `return nil`.
PreRunPlugins(p) ==
    /\ pc[p] = "pre"
    /\ IF idx[p] > Len(plugins)
       THEN /\ pc' = [pc EXCEPT ![p] = AfterPreHooks]
            /\ idx' = [idx EXCEPT ![p] = 1]
            /\ UNCHANGED <<ret, log>>
       ELSE IF ~IsPreHook(plugins[idx[p]])
       THEN /\ idx' = [idx EXCEPT ![p] = @ + 1]
            /\ UNCHANGED <<pc, ret, log>>
       ELSE RunPlugin(p, "pre")
    /\ UNCHANGED <<wd, fs, plugins, templates, origWd, cwdArg, deferred>>
    /\ UNCHANGED otherThanCreate

\* One iteration of postRunPlugins, or its `return nil`, which is Create's.
PostRunPlugins(p) ==
    /\ pc[p] = "post"
    /\ IF idx[p] > Len(plugins)
       THEN /\ pc' = [pc EXCEPT ![p] = "defer"]
            /\ ret' = [ret EXCEPT ![p] = NoErr]
            /\ UNCHANGED <<idx, log>>
       ELSE IF ~IsPostHook(plugins[idx[p]])
       THEN /\ idx' = [idx EXCEPT ![p] = @ + 1]
            /\ UNCHANGED <<pc, ret, log>>
       ELSE RunPlugin(p, "post")
    /\ UNCHANGED <<wd, fs, plugins, templates, origWd, cwdArg, deferred>>
    /\ UNCHANGED otherThanCreate

\* copy.Copy(src, dest): the source in the template store is a file or a
\* folder; missing parents of dest are created.
CopyInto(f, wdir, t, what) ==
    LET dest == Resolve(wdir, t.Destination)
        withParents ==
            [q \in DOMAIN f \cup { Resolve(wdir, a) : a \in Parents(t.Destination) }
                |-> IF q \in DOMAIN f THEN f[q] ELSE Dir]
    IN  Put(withParents, dest, IF what = "file" THEN CopiedFile ELSE Dir)

\* os.Create(dest) needs the parent directory and truncates what is there.
CanCreate(f, wdir, t) ==
    LET dest == Resolve(wdir, t.Destination) IN
    /\ \A a \in Parents(t.Destination) :
          /\ Resolve(wdir, a) \in DOMAIN f
          /\ f[Resolve(wdir, a)].kind = "dir"
    /\ dest \in DOMAIN f => f[dest].kind = "file"

\* os.MkdirAll(dest) fails only when a component is a file.
CanMkdirAll(f, wdir, t) ==
    \A a \in Parents(t.Destination) \cup {t.Destination} :
        Resolve(wdir, a) \in DOMAIN f => f[Resolve(wdir, a)].kind = "dir"

\* A folder made the way os.Mkdir makes one: the last component only.
MkdirLeafOnly(f, wdir, t) == Put(f, Resolve(wdir, t.Destination), Dir)

MkdirAll(f, wdir, t) ==
    LET made == { Resolve(wdir, a) : a \in Parents(t.Destination) \cup {t.Destination} }
    IN  [q \in DOMAIN f \cup made |-> IF q \in DOMAIN f THEN f[q] ELSE Dir]

\* One iteration of createFilesAndFolders, or its `return nil`.
CreateFilesAndFolders(p) ==
    /\ pc[p] = "tmpl"
    /\ IF idx[p] > Len(templates)
       THEN /\ pc' = [pc EXCEPT ![p] = AfterTemplates]
            /\ idx' = [idx EXCEPT ![p] = 1]
            /\ UNCHANGED <<fs, ret, log>>
       ELSE LET t == templates[idx[p]]
                dest == Resolve(wd, t.Destination) IN
            \E copy \in (IF Len(t.Path) > 0 THEN {"fail", "file", "dir"} ELSE {"none"}),
               io \in BOOLEAN :
               LET copied == IF copy \in {"file", "dir"}
                             THEN CopyInto(fs, wd, t, copy) ELSE fs
                   ok == /\ copy # "fail"
                         /\ io
                         /\ IF t.IsFile THEN CanCreate(copied, wd, t)
                                        ELSE CanMkdirAll(copied, wd, t)
               IN  /\ fs' = IF ~ok THEN copied
                            ELSE IF t.IsFile THEN Put(copied, dest, EmptyFile)
                            ELSE MkdirAll(copied, wd, t)
                   /\ Event(p, [kind |-> "write", i |-> idx[p], ok |-> ok,
                                copy |-> copy, path |-> dest, wd |-> wd])
                   /\ pc' = [pc EXCEPT ![p] = IF ok THEN "tmpl" ELSE "defer"]
                   /\ idx' = [idx EXCEPT ![p] = @ + 1]
                   /\ ret' = IF ok THEN ret
                             ELSE [ret EXCEPT ![p] = [kind |-> "write", i |-> idx[p]]]
    /\ UNCHANGED <<wd, plugins, templates, origWd, cwdArg, deferred>>
    /\ UNCHANGED otherThanCreate

\* The deferred os.Chdir(cwd), run when Create returns.
RestoreWorkingDirectory(p) ==
    /\ pc[p] = "defer"
    /\ wd' = Resolve(wd, deferred[p])
    /\ Event(p, [kind |-> "restore", path |-> Resolve(wd, deferred[p])])
    /\ pc' = [pc EXCEPT ![p] = "done"]
    /\ UNCHANGED <<fs, plugins, templates, origWd, cwdArg, deferred, idx, ret>>
    /\ UNCHANGED otherThanCreate

CreateStep(p) ==
    \/ CreateProjectFolder(p)
    \/ EnterProjectFolder(p)
    \/ RegisterRestore(p)
    \/ PreRunPlugins(p)
    \/ CreateFilesAndFolders(p)
    \/ PostRunPlugins(p)
    \/ RestoreWorkingDirectory(p)

NextCreate == \E p \in Procs : CreateStep(p)

\* No Create call is in progress.
IdleCreate ==
    /\ origWd = <<"/", "w">>
    /\ wd = origWd
    /\ fs = Put(<<>>, origWd, Dir)
    /\ plugins = <<>>
    /\ templates = <<>>
    /\ cwdArg = [p \in Procs |-> origWd]
    /\ deferred = [p \in Procs |-> <<>>]
    /\ pc = [p \in Procs |-> "idle"]
    /\ idx = [p \in Procs |-> 1]
    /\ ret = [p \in Procs |-> NoErr]
    /\ log = [p \in Procs |-> <<>>]

\* No pickLabel call is in progress.
IdleLabel ==
    /\ labelName = <<>>
    /\ labelOut = [panic |-> FALSE, label |-> <<>>]
    /\ labelPc = "idle"

\* No ImportCollectionFromRepo call is in progress.
IdleColl ==
    /\ collTree = <<>>
    /\ collTemplates = <<>>
    /\ collPc = "idle"
    /\ collIdx = 1
    /\ collWg = 0
    /\ collTask = <<>>
    /\ packageChannel = <<>>
    /\ collErrs = <<>>
    /\ collRet = [packageList |-> <<>>, errMsg |-> <<>>]

NoPackage == [Templates |-> <<>>, Plugins |-> <<>>]

NoFiles == [templates |-> <<>>, plugins |-> <<>>]

\* No ImportFromRepo call is in progress.
IdleImport ==
    /\ config = NoPackage
    /\ repoTree = <<>>
    /\ c = NoPackage
    /\ importPc = "idle"
    /\ importIdx = 1
    /\ rex = FALSE
    /\ treeLoads = 0
    /\ filtered = <<>>
    /\ filesToDownload = NoFiles
    /\ err = NoErr
    /\ errs = <<>>
    /\ wg = 0
    /\ fetchTask = <<>>
    /\ present = {}
    /\ presentAtStart = {}
    /\ fetches = <<>>
    /\ importRet = NoErr

\* No call of the tree filter is in progress.
IdleFilter ==
    /\ filtImporter = "github"
    /\ filtTree = <<>>
    /\ filtFilters = [isNil |-> TRUE, list |-> <<>>]
    /\ filtOut = <<>>
    /\ filtPc = "idle"

EmptyPackage == [Name |-> <<>>, Label |-> <<>>, Templates |-> <<>>, Plugins |-> <<>>]

\* No ImportFromFolderStructure call is in progress.
IdleFolder ==
    /\ dirPath = <<>>
    /\ dirEntries = <<>>
    /\ excludeDirs = <<>>
    /\ folderPkg = EmptyPackage
    /\ folderRet = NoErr
    /\ folderPc = "idle"

\* No ImportFromConfig call is in progress.
IdleConfig ==
    /\ confPath = <<>>
    /\ confFiles = <<>>
    /\ confPkg = EmptyPackage
    /\ confBefore = EmptyPackage
    /\ confRet = NoErr
    /\ confPc = "idle"

IdleLocal == IdleFilter /\ IdleFolder /\ IdleConfig

InitCreateInputs ==
    /\ IdleLocal
    /\ IdleLabel
    /\ IdleColl
    /\ IdleImport
    /\ origWd \in OrigDirs
    /\ wd = origWd
    /\ plugins \in SeqsUpTo(PluginChoices, MaxPlugins)
    /\ templates \in SeqsUpTo(TemplateChoices, MaxTemplates)
    /\ deferred = [p \in Procs |-> <<>>]
    /\ idx = [p \in Procs |-> 1]
    /\ ret = [p \in Procs |-> NoErr]
    /\ log = [p \in Procs |-> <<>>]

\* One Create call; the project folder may already exist.
InitCreate ==
    /\ InitCreateInputs
    /\ \E arg \in CwdArgs(origWd) : cwdArg = [p \in Procs |-> arg]
    /\ \E exists \in BOOLEAN :
          fs = IF exists
               THEN Put(Put(<<>>, origWd, Dir), Resolve(origWd, ProjectName(1)), Dir)
               ELSE Put(<<>>, origWd, Dir)
    /\ pc = [p \in Procs |-> IF p = 1 THEN "mkdir" ELSE "idle"]

SpecCreate == InitCreate /\ [][NextCreate]_vars

\* Two Create calls in one process, started from goroutines.
InitCreateConc ==
    /\ InitCreateInputs
    /\ origWd = <<"/", "w">>
    /\ \A k \in DOMAIN plugins : plugins[k].ExecNumber \in {-1, 1}
    /\ cwdArg = [p \in Procs |-> origWd]
    /\ fs = Put(<<>>, origWd, Dir)
    /\ pc = [p \in Procs |-> "mkdir"]

SpecCreateConc == InitCreateConc /\ [][NextCreate]_vars

(***************************************************************************)
(* Project.Create: what the log of a call says.                            *)
(***************************************************************************)
Entered(p) == \E k \in DOMAIN log[p] : log[p][k].kind = "chdir"

Exited(p) == pc[p] \in {"done", "panicked"}

ProjectRoot(p) == Resolve(origWd, ProjectName(p))

Rank(e) ==
    CASE e.kind = "mkdir" -> 1
      [] e.kind = "chdir" -> 2
      [] e.kind = "plugin" /\ e.phase = "pre" -> 3
      [] e.kind = "write" -> 4
      [] e.kind = "plugin" /\ e.phase = "post" -> 5
      [] e.kind = "restore" -> 6

IsHookEvent(e, phase) == e.kind = "plugin" /\ e.phase = phase

\* The plugin indices a call ran in a phase, in the order it ran them.
RECURSIVE RanIn(_, _)
RanIn(l, phase) ==
    IF l = <<>> THEN <<>>
    ELSE IF IsHookEvent(Head(l), phase)
         THEN <<Head(l).i>> \o RanIn(Tail(l), phase)
         ELSE RanIn(Tail(l), phase)

\* The indices 1..n of the stored plugins whose ExecNumber has the sign.
RECURSIVE WithSign(_, _)
WithSign(n, sign) ==
    IF n = 0 THEN <<>>
    ELSE IF plugins[n].ExecNumber * sign > 0
         THEN Append(WithSign(n - 1, sign), n)
         ELSE WithSign(n - 1, sign)

IsPrefixOf(a, b) == Len(a) <= Len(b) /\ a = SubSeq(b, 1, Len(a))

PreHooksAllOk(l) ==
    { l[k].i : k \in { j \in DOMAIN l : IsHookEvent(l[j], "pre") /\ l[j].ok } }
        = { i \in DOMAIN plugins : plugins[i].ExecNumber < 0 }

TemplatesAllOk(l) ==
    { l[k].i : k \in { j \in DOMAIN l : l[j].kind = "write" /\ l[j].ok } }
        = DOMAIN templates

(***************************************************************************)
(* C1: on every exit of Create after the change into the project root      *)
(* succeeded (return, error return, abort), the process working directory  *)
(* is again the directory that was current before the call.                *)
(***************************************************************************)
C1_RestoredOnEveryExit ==
    \A p \in Procs : (Exited(p) /\ Entered(p)) => wd = origWd

(***************************************************************************)
(* C2: the phases of Create occur in the order create-folder, enter-folder,*)
(* pre-hooks, templates, post-hooks, restore, the single-step phases at    *)
(* most once; a template is written only after every pre-hook succeeded, a *)
(* post-hook starts only after every template was written, and a failing   *)
(* post-hook still has the working directory restored and its error        *)
(* returned.                                                               *)
(***************************************************************************)
C2_PhaseOrder ==
    \A p \in Procs :
       LET l == log[p] IN
       /\ \A a, b \in DOMAIN l :
             a < b => /\ Rank(l[a]) <= Rank(l[b])
                      /\ Rank(l[a]) \in {1, 2, 6} => Rank(l[a]) < Rank(l[b])
       /\ (\E k \in DOMAIN l : l[k].kind = "write") => PreHooksAllOk(l)
       /\ (\E k \in DOMAIN l : IsHookEvent(l[k], "post"))
             => PreHooksAllOk(l) /\ TemplatesAllOk(l)
       /\ \A k \in DOMAIN l :
             (pc[p] = "done" /\ IsHookEvent(l[k], "post") /\ ~l[k].ok)
                => /\ l[Len(l)].kind = "restore"
                   /\ wd = origWd
                   /\ ret[p] = [kind |-> "plugin", i |-> l[k].i]

C2_Witness ==
    /\ pc[1] = "done"
    /\ wd = origWd
    /\ Len(log[1]) = 6
    /\ IsHookEvent(log[1][3], "pre") /\ log[1][3].ok
    /\ log[1][4].kind = "write" /\ log[1][4].ok
    /\ IsHookEvent(log[1][5], "post") /\ ~log[1][5].ok
    /\ log[1][6].kind = "restore"
    /\ ret[1].kind = "plugin"

(***************************************************************************)
(* C7: two concurrent Create calls are never both between their change of  *)
(* working directory and their restore, and every plugin run and template  *)
(* write of a call happens with the process in that call's project root.   *)
(***************************************************************************)
InCriticalSection(p) == pc[p] \in {"slash", "pre", "tmpl", "post", "defer"}

C7_CriticalSection ==
    /\ ~(InCriticalSection(1) /\ InCriticalSection(2))
    /\ \A p \in Procs : \A k \in DOMAIN log[p] :
          log[p][k].kind \in {"plugin", "write"} => log[p][k].wd = ProjectRoot(p)

(***************************************************************************)
(* C8: the pre-hook phase runs exactly the plugins with ExecNumber < 0 and *)
(* the post-hook phase exactly those with ExecNumber > 0, each in stored   *)
(* order; a plugin with ExecNumber = 0 never runs and none runs in both.   *)
(***************************************************************************)
C8_PhaseBySign ==
    \A p \in Procs :
       LET pre == RanIn(log[p], "pre")
           post == RanIn(log[p], "post")
           n == Len(plugins) IN
       /\ IsPrefixOf(pre, WithSign(n, -1))
       /\ IsPrefixOf(post, WithSign(n, 1))
       /\ pc[p] \in {"tmpl", "post"} => pre = WithSign(n, -1)
       /\ (pc[p] = "done" /\ ret[p] = NoErr /\ Entered(p))
             => pre = WithSign(n, -1) /\ post = WithSign(n, 1)
       /\ \A k \in DOMAIN log[p] :
             log[p][k].kind = "plugin" => plugins[log[p][k].i].ExecNumber # 0
       /\ \A a \in DOMAIN pre : \A b \in DOMAIN post : pre[a] # post[b]

C8_Witness ==
    /\ pc[1] = "done" /\ ret[1] = NoErr
    /\ Len(plugins) = 2
    /\ plugins[1].ExecNumber = -1 /\ plugins[2].ExecNumber = -2
    /\ RanIn(log[1], "pre") = <<1, 2>>
    /\ RanIn(log[1], "post") = <<>>

(***************************************************************************)
(* C9: the first failing plugin aborts the materialization: no plugin and  *)
(* no template follows it, Create returns its error, and what was created  *)
(* before it is still there.                                               *)
(***************************************************************************)
C9_FirstFailureAborts ==
    \A p \in Procs : \A k \in DOMAIN log[p] :
       LET l == log[p] IN
       (l[k].kind = "plugin" /\ ~l[k].ok) =>
          /\ \A m \in DOMAIN l : m > k => l[m].kind = "restore"
          /\ pc[p] \in {"defer", "done"}
          /\ ret[p] = [kind |-> "plugin", i |-> l[k].i]
          /\ \A m \in DOMAIN l :
                (m < k /\ (l[m].kind = "mkdir" \/ (l[m].kind = "write" /\ l[m].ok)))
                   => l[m].path \in DOMAIN fs

C9_Witness ==
    /\ pc[1] = "done"
    /\ ret[1].kind = "plugin"
    /\ \E k \in DOMAIN log[1] :
          /\ IsHookEvent(log[1][k], "post") /\ ~log[1][k].ok
          /\ \E m \in DOMAIN log[1] : m < k /\ log[1][m].kind = "write"
    /\ Len(templates) = 2 /\ Len(plugins) = 2

(***************************************************************************)
(* The tree filter/converter (filterAndConvertGHTreeEntries).  A filter is *)
(* the literal its regexp looks for: "templates/" and `configs/.*` both    *)
(* match a path exactly when the literal occurs somewhere in it.           *)
(***************************************************************************)
ConfigsDir == <<"c", "o", "n", "f", "i", "g", "s", "/">>

TemplatesDir == <<"t", "e", "m", "p", "l", "a", "t", "e", "s", "/">>

\* filter.FindStringIndex(path) != nil
Matches(filter, path) == IndexOf(path, filter) # 0

\* A filter loop that starts from skip = true: with no filter, every entry
\* is skipped.
SkipEntryUnlessMatched(path, filters, skip) ==
    ~\E i \in DOMAIN filters : Matches(filters[i], path)

\* The inner `for _, filter := range filters` loop: the value of skip.
RECURSIVE SkipEntry(_, _, _)
SkipEntry(path, filters, skip) ==
    IF filters = <<>> THEN skip
    ELSE IF Matches(Head(filters), path) THEN FALSE
    ELSE SkipEntry(path, Tail(filters), TRUE)

RECURSIVE filterAndConvertGHTreeEntries(_, _)
filterAndConvertGHTreeEntries(treeEntries, filters) ==
    IF treeEntries = <<>> THEN <<>>
    ELSE LET entry == Head(treeEntries)
             rest == filterAndConvertGHTreeEntries(Tail(treeEntries), filters)
         IN  IF SkipEntry(entry.Path, filters, FALSE) THEN rest
             ELSE <<[IsFile |-> entry.Type = "blob", Path |-> <<>>,
                     Destination |-> entry.Path]>> \o rest

DistinctSeqs(S, n) ==
    { q \in SeqsUpTo(S, n) : \A i, j \in DOMAIN q : i # j => q[i] # q[j] }

(***************************************************************************)
(* ImportCollectionFromRepo.                                               *)
(***************************************************************************)
CollEntries ==
    { [Path |-> ConfigsDir \o <<"a">>, Type |-> "blob"],
      [Path |-> ConfigsDir \o <<"b">>, Type |-> "blob"],
      [Path |-> ConfigsDir \o <<"c">>, Type |-> "blob"],
      [Path |-> ConfigsDir \o <<"d">>, Type |-> "tree"],
      [Path |-> <<"R">>,               Type |-> "blob"] }

CollReturn(list, msg) ==
    /\ collRet' = [packageList |-> list, errMsg |-> msg]
    /\ collPc' = "returned"

\* c.ImportFromRepoStructure(importer, {`configs/.*`}) and the isEmpty check.
CollImportStructure ==
    /\ collPc = "structure"
    /\ \E ok \in BOOLEAN :
          IF ~ok
          THEN /\ CollReturn(<<>>, <<[kind |-> "load"]>>)
               /\ UNCHANGED collTemplates
          ELSE LET found == filterAndConvertGHTreeEntries(collTree, <<ConfigsDir>>) IN
               /\ collTemplates' = found
               /\ IF Len(found) = 0
                  THEN CollReturn(<<>>, <<[kind |-> "empty"]>>)
                  ELSE collPc' = "add" /\ UNCHANGED collRet
    /\ UNCHANGED <<collTree, collIdx, collWg, collTask, packageChannel, collErrs>>
    /\ UNCHANGED otherThanColl

\* numFiles := len(c.Templates); wg.Add(numFiles); both channels get that
\* capacity.
CollAdd ==
    /\ collPc = "add"
    /\ collWg' = Len(collTemplates)
    /\ collTask' = [i \in DOMAIN collTemplates |-> [pc |-> "none", outcome |-> "none"]]
    /\ collIdx' = 1
    /\ collPc' = "spawn"
    /\ UNCHANGED <<collTree, collTemplates, packageChannel, collErrs, collRet>>
    /\ UNCHANGED otherThanColl

\* One iteration of `for _, template := range c.Templates`: a goroutine is
\* started for a file entry only.
CollSpawn ==
    /\ collPc = "spawn"
    /\ IF collIdx > Len(collTemplates)
       THEN /\ collPc' = "wait"
            /\ UNCHANGED <<collIdx, collTask>>
       ELSE /\ collIdx' = collIdx + 1
            /\ collTask' = IF ~collTemplates[collIdx].IsFile THEN collTask
                           ELSE [collTask EXCEPT ![collIdx].pc = "parse"]
            /\ UNCHANGED collPc
    /\ UNCHANGED <<collTree, collTemplates, collWg, packageChannel, collErrs, collRet>>
    /\ UNCHANGED otherThanColl

\* repo.ParseURL(collectionURL.String() + "/" + template.Destination)
TaskParseURL(i) ==
    /\ collTask[i].pc = "parse"
    /\ \E ok \in BOOLEAN :
          IF ok
          THEN /\ collTask' = [collTask EXCEPT ![i].pc = "import"]
               /\ UNCHANGED collErrs
          ELSE /\ Len(collErrs) < Len(collTemplates)
               /\ collErrs' = Append(collErrs, [task |-> i])
               /\ collTask' = [collTask EXCEPT ![i] = [pc |-> "exit", outcome |-> "failed"]]
    /\ UNCHANGED <<collTree, collTemplates, collPc, collIdx, collWg, packageChannel, collRet>>
    /\ UNCHANGED otherThanColl

\* `if err != nil { errs <- err; return }`
SendsError(ok) == ~ok

\* An import task whose error branch lacks the `return`.
SendsPackageWithoutReturn(ok) == TRUE

\* `packageChannel <- pkg`, reached only past the return above.
SendsPackage(ok) == ok

\* err = pkg.ImportFromRepo(packageURL, importer) and the send of its outcome.
TaskImport(i) ==
    /\ collTask[i].pc = "import"
    /\ \E ok \in BOOLEAN :
          /\ SendsError(ok) => Len(collErrs) < Len(collTemplates)
          /\ SendsPackage(ok) => Len(packageChannel) < Len(collTemplates)
          /\ collErrs' = IF SendsError(ok) THEN Append(collErrs, [task |-> i])
                         ELSE collErrs
          /\ packageChannel' = IF SendsPackage(ok) THEN Append(packageChannel, [task |-> i])
                               ELSE packageChannel
          /\ collTask' = [collTask EXCEPT ![i] =
                             [pc |-> "exit", outcome |-> IF ok THEN "imported" ELSE "failed"]]
    /\ UNCHANGED <<collTree, collTemplates, collPc, collIdx, collWg, collRet>>
    /\ UNCHANGED otherThanColl

\* defer wg.Done()
TaskDone(i) ==
    /\ collTask[i].pc = "exit"
    /\ collWg' = collWg - 1
    /\ collTask' = [collTask EXCEPT ![i].pc = "finished"]
    /\ UNCHANGED <<collTree, collTemplates, collPc, collIdx, packageChannel, collErrs, collRet>>
    /\ UNCHANGED otherThanColl

\* wg.Wait() returns when the counter is zero; the channels are closed.
CollWait ==
    /\ collPc = "wait"
    /\ collWg = 0
    /\ collPc' = "drain"
    /\ UNCHANGED <<collTree, collTemplates, collIdx, collWg, collTask,
                   packageChannel, collErrs, collRet>>
    /\ UNCHANGED otherThanColl

\* The two range loops over the closed channels, and the return.
CollDrain ==
    /\ collPc = "drain"
    /\ CollReturn(packageChannel, collErrs)
    /\ packageChannel' = <<>>
    /\ collErrs' = <<>>
    /\ UNCHANGED <<collTree, collTemplates, collIdx, collWg, collTask>>
    /\ UNCHANGED otherThanColl

NextColl ==
    \/ CollImportStructure
    \/ CollAdd
    \/ CollSpawn
    \/ \E i \in DOMAIN collTask : TaskParseURL(i)
    \/ \E i \in DOMAIN collTask : TaskImport(i)
    \/ \E i \in DOMAIN collTask : TaskDone(i)
    \/ CollWait
    \/ CollDrain

InitColl ==
    /\ IdleLocal
    /\ IdleCreate
    /\ IdleLabel
    /\ IdleImport
    /\ collTree \in DistinctSeqs(CollEntries, MaxTreeEntries)
    /\ collTemplates = <<>>
    /\ collPc = "structure"
    /\ collIdx = 1
    /\ collWg = 0
    /\ collTask = <<>>
    /\ packageChannel = <<>>
    /\ collErrs = <<>>
    /\ collRet = [packageList |-> <<>>, errMsg |-> <<>>]

SpecColl == InitColl /\ [][NextColl]_vars

FileEntries == { i \in DOMAIN collTemplates : collTemplates[i].IsFile }

Tasks(q) == { q[k].task : k \in DOMAIN q }

(***************************************************************************)
(* C4: ImportCollectionFromRepo passes its join once every import task it  *)
(* spawned has finished, whatever mix of file and directory entries the    *)
(* tree has under configs/.                                                *)
(***************************************************************************)
C4_JoinPassed ==
    (/\ collPc = "wait"
     /\ \A i \in DOMAIN collTask : collTask[i].pc \in {"none", "finished"})
        => collWg = 0

(***************************************************************************)
(* C5: when ImportCollectionFromRepo returns after the fan-out, every file *)
(* entry under configs/ is accounted for exactly once, by its package in   *)
(* the list or by one error in the message; the error is non-nil exactly   *)
(* when an import failed.                                                  *)
(***************************************************************************)
C5_EveryEntryAccounted ==
    (collPc = "returned" /\ collTask # <<>>) =>
       LET list == collRet.packageList
           msg == collRet.errMsg IN
       /\ Tasks(list) = { i \in FileEntries : collTask[i].outcome = "imported" }
       /\ Tasks(msg) = { i \in FileEntries : collTask[i].outcome = "failed" }
       /\ Len(list) = Cardinality(Tasks(list))
       /\ Len(msg) = Cardinality(Tasks(msg))
       /\ Len(list) + Len(msg) = Cardinality(FileEntries)
       /\ (Len(msg) > 0) <=> (\E i \in FileEntries : collTask[i].outcome = "failed")

C5_Witness ==
    /\ collPc = "returned"
    /\ Len(collRet.packageList) = 2
    /\ Len(collRet.errMsg) = 1
    /\ Cardinality(FileEntries) = 3

(***************************************************************************)
(* Package.ImportFromRepo.                                                 *)
(***************************************************************************)
PluginsDir == <<"p", "l", "u", "g", "i", "n", "s", "/">>

KeyDir(fileType) == IF fileType = "templates" THEN TemplatesDir ELSE PluginsDir

\* dst := filepath.Join(downloadDestination, fileType, file), relative to
\* the base config path.
Dst(fileType, file) == Clean(KeyDir(fileType) \o file)

ImportReturn(e) ==
    /\ importRet' = e
    /\ importPc' = "returned"

\* util.DownloadFileIfNotExists(f, dwn) for the config itself.
DownloadConfig ==
    /\ importPc = "config"
    /\ \E ok \in BOOLEAN :
          IF ok THEN importPc' = "import" /\ UNCHANGED importRet
          ELSE ImportReturn([kind |-> "config"])
    /\ UNCHANGED <<config, repoTree, c, importIdx, rex, treeLoads, filtered,
                   filesToDownload, err, errs, wg, fetchTask, present,
                   presentAtStart, fetches>>
    /\ UNCHANGED otherThanImport

\* isEmpty
isEmpty(pkg) == Len(pkg.Templates) = 0 /\ Len(pkg.Plugins) = 0

\* err = c.ImportFromConfig(f): the decoded config fills c; a config that
\* declares nothing is refused.
ImportConfig ==
    /\ importPc = "import"
    /\ \E ok \in BOOLEAN :
          IF ok /\ ~isEmpty(config)
          THEN /\ c' = config
               /\ importPc' = "queue"
               /\ importIdx' = 1
               /\ UNCHANGED importRet
          ELSE /\ ImportReturn([kind |-> "import"])
               /\ UNCHANGED <<c, importIdx>>
    /\ UNCHANGED <<config, repoTree, rex, treeLoads, filtered, filesToDownload,
                   err, errs, wg, fetchTask, present, presentAtStart, fetches>>
    /\ UNCHANGED otherThanImport

\* trimmedFilePath := template.Destination[len("templates/"):]
TrimmedFilePath(entry) ==
    SubSeq(entry.Destination, Len(TemplatesDir) + 1, Len(entry.Destination))

\* The inner `for _, template := range templates`: its loop variable hides
\* the declared template, so the prefix tested is the entry's own Path.
RECURSIVE QueuedFor(_, _)
QueuedFor(declared, entries) ==
    IF entries = <<>> THEN <<>>
    ELSE LET template == Head(entries) IN
         (IF HasPrefix(TrimmedFilePath(template), template.Path)
          THEN <<TrimmedFilePath(template)>> ELSE <<>>)
            \o QueuedFor(declared, Tail(entries))

\* A tree that is requested again for every template with a Path.
LoadsEveryTime(compiled) == TRUE

\* `if rex == nil`: the regexp is compiled and the tree requested only once.
LoadsNow(compiled) == ~compiled

\* One iteration of the first `for _, template := range c.Templates`.
QueueTemplateFiles ==
    /\ importPc = "queue"
    /\ IF importIdx > Len(c.Templates)
       THEN /\ importPc' = "prepare"
            /\ UNCHANGED <<importIdx, rex, treeLoads, filtered, filesToDownload,
                           importRet>>
       ELSE IF c.Templates[importIdx].Path = <<>>
       THEN /\ importIdx' = importIdx + 1
            /\ UNCHANGED <<importPc, rex, treeLoads, filtered, filesToDownload,
                           importRet>>
       ELSE \E ok \in BOOLEAN :
            LET loading == LoadsNow(rex)
                found == IF loading
                         THEN filterAndConvertGHTreeEntries(repoTree, <<TemplatesDir>>)
                         ELSE filtered
            IN  /\ rex' = TRUE
                /\ treeLoads' = IF loading THEN treeLoads + 1 ELSE treeLoads
                /\ IF loading /\ ~ok
                   THEN /\ ImportReturn([kind |-> "load"])
                        /\ UNCHANGED <<importIdx, filtered, filesToDownload>>
                   ELSE /\ filtered' = found
                        /\ IF Len(found) < 1
                           THEN /\ ImportReturn([kind |-> "notemplates"])
                                /\ UNCHANGED <<importIdx, filesToDownload>>
                           ELSE /\ filesToDownload' =
                                      [filesToDownload EXCEPT !.templates =
                                          @ \o QueuedFor(c.Templates[importIdx], found)]
                                /\ importIdx' = importIdx + 1
                                /\ UNCHANGED <<importPc, importRet>>
    /\ UNCHANGED <<config, repoTree, c, err, errs, wg, fetchTask, present,
                   presentAtStart, fetches>>
    /\ UNCHANGED otherThanImport

Paths(list) == [i \in DOMAIN list |-> list[i].Path]

\* The files of both lists as (fileType, file) pairs.
Queued(files) ==
    [i \in DOMAIN files.templates |-> [fileType |-> "templates", file |-> files.templates[i]]]
        \o [i \in DOMAIN files.plugins |-> [fileType |-> "plugins", file |-> files.plugins[i]]]

\* The two unconditional loops, numFiles, wg.Add(numFiles) and
\* errs := make(chan error, numFiles).
PrepareFetch ==
    /\ importPc = "prepare"
    /\ LET files == [templates |-> filesToDownload.templates \o Paths(c.Templates),
                     plugins |-> filesToDownload.plugins \o Paths(c.Plugins)]
       IN  /\ filesToDownload' = files
           /\ wg' = Len(files.templates) + Len(files.plugins)
    /\ errs' = <<>>
    /\ importPc' = "spawn"
    /\ UNCHANGED <<config, repoTree, c, importIdx, rex, treeLoads, filtered, err,
                   fetchTask, present, presentAtStart, fetches, importRet>>
    /\ UNCHANGED otherThanImport

\* for fileType, fileList := range filesToDownload { for ... { go func ... } }
SpawnFetches ==
    /\ importPc = "spawn"
    /\ fetchTask' = [k \in DOMAIN Queued(filesToDownload) |->
                        [fileType |-> Queued(filesToDownload)[k].fileType,
                         file |-> Queued(filesToDownload)[k].file,
                         pc |-> "stat", result |-> NoErr]]
    /\ importPc' = "wait"
    /\ UNCHANGED <<config, repoTree, c, importIdx, rex, treeLoads, filtered,
                   filesToDownload, err, errs, wg, present, presentAtStart,
                   fetches, importRet>>
    /\ UNCHANGED otherThanImport

\* A count that leaves the plugins out.
numTemplateFiles == Len(filesToDownload.templates)

\* numFiles := len(filesToDownload[templatesKey]) + len(filesToDownload[pluginsKey])
numFiles == Len(filesToDownload.templates) + Len(filesToDownload.plugins)

TaskDst(k) == Dst(fetchTask[k].fileType, fetchTask[k].file)

\* util.DownloadFileIfNotExists(dst, src), first half: does dst exist?
FetchStat(k) ==
    /\ importPc = "wait"
    /\ fetchTask[k].pc = "stat"
    /\ fetchTask' = [fetchTask EXCEPT ![k].pc =
                        IF TaskDst(k) \in present THEN "assign" ELSE "fetch"]
    /\ UNCHANGED <<config, repoTree, c, importPc, importIdx, rex, treeLoads,
                   filtered, filesToDownload, err, errs, wg, present,
                   presentAtStart, fetches, importRet>>
    /\ UNCHANGED otherThanImport

\* util.DownloadFileIfNotExists(dst, src), second half: the network fetch,
\* which writes dst when it succeeds.
FetchDownload(k) ==
    /\ importPc = "wait"
    /\ fetchTask[k].pc = "fetch"
    /\ \E ok \in BOOLEAN :
          /\ fetches' = Append(fetches, [task |-> k, dst |-> TaskDst(k), ok |-> ok,
                                         existed |-> TaskDst(k) \in present])
          /\ present' = IF ok THEN present \cup {TaskDst(k)} ELSE present
          /\ fetchTask' = [fetchTask EXCEPT
                              ![k].pc = "assign",
                              ![k].result = IF ok THEN NoErr
                                            ELSE [kind |-> "fetch", task |-> k]]
    /\ UNCHANGED <<config, repoTree, c, importPc, importIdx, rex, treeLoads,
                   filtered, filesToDownload, err, errs, wg, presentAtStart,
                   importRet>>
    /\ UNCHANGED otherThanImport

\* `err = util.DownloadFileIfNotExists(dst, src)`: the goroutine stores the
\* result in the err of the enclosing function, which all goroutines share.
FetchAssign(k) ==
    /\ importPc = "wait"
    /\ fetchTask[k].pc = "assign"
    /\ err' = fetchTask[k].result
    /\ fetchTask' = [fetchTask EXCEPT ![k].pc = "check"]
    /\ UNCHANGED <<config, repoTree, c, importPc, importIdx, rex, treeLoads,
                   filtered, filesToDownload, errs, wg, present, presentAtStart,
                   fetches, importRet>>
    /\ UNCHANGED otherThanImport

\* `if err != nil { errs <- err }` reads that shared err; then the deferred
\* wg.Done().
FetchReport(k) ==
    /\ importPc = "wait"
    /\ fetchTask[k].pc = "check"
    /\ err # NoErr => Len(errs) < numFiles
    /\ errs' = IF err # NoErr THEN Append(errs, err) ELSE errs
    /\ wg' = wg - 1
    /\ fetchTask' = [fetchTask EXCEPT ![k].pc = "finished"]
    /\ UNCHANGED <<config, repoTree, c, importPc, importIdx, rex, treeLoads,
                   filtered, filesToDownload, err, present, presentAtStart,
                   fetches, importRet>>
    /\ UNCHANGED otherThanImport

\* wg.Wait(); close(errs); the range over errs builds errMsg; return err.
CollectErrors ==
    /\ importPc = "wait"
    /\ wg = 0
    /\ err' = IF Len(errs) > 0 THEN [kind |-> "combined", errMsg |-> errs] ELSE NoErr
    /\ ImportReturn(err')
    /\ errs' = <<>>
    /\ UNCHANGED <<config, repoTree, c, importIdx, rex, treeLoads, filtered,
                   filesToDownload, wg, fetchTask, present, presentAtStart, fetches>>
    /\ UNCHANGED otherThanImport

NextImport ==
    \/ DownloadConfig
    \/ ImportConfig
    \/ QueueTemplateFiles
    \/ PrepareFetch
    \/ SpawnFetches
    \/ \E k \in DOMAIN fetchTask : FetchStat(k)
    \/ \E k \in DOMAIN fetchTask : FetchDownload(k)
    \/ \E k \in DOMAIN fetchTask : FetchAssign(k)
    \/ \E k \in DOMAIN fetchTask : FetchReport(k)
    \/ CollectErrors

DeclaredTemplates ==
    { [Path |-> <<>>,    Destination |-> <<"R">>, IsFile |-> TRUE],
      [Path |-> <<"t">>, Destination |-> <<"g">>, IsFile |-> TRUE] }

DeclaredPlugins == { [Path |-> <<"h">>, ExecNumber |-> 1] }

RepoEntries ==
    { [Path |-> TemplatesDir \o <<"t">>,            Type |-> "blob"],
      [Path |-> TemplatesDir \o <<"u">>,            Type |-> "blob"],
      [Path |-> <<"v", "/">> \o TemplatesDir \o <<"w">>, Type |-> "blob"] }

\* How many fetches an import of pkg from tree queues.
QueueLength(pkg, tree) ==
    LET found == filterAndConvertGHTreeEntries(tree, <<TemplatesDir>>)
        withPath == { i \in DOMAIN pkg.Templates : pkg.Templates[i].Path # <<>> }
    IN  Cardinality(withPath) * Len(found) + Len(pkg.Templates) + Len(pkg.Plugins)

InitImport ==
    /\ IdleLocal
    /\ IdleCreate
    /\ IdleLabel
    /\ IdleColl
    /\ config \in [Templates : SeqsUpTo(DeclaredTemplates, MaxDeclared),
                   Plugins : SeqsUpTo(DeclaredPlugins, 1)]
    /\ repoTree \in DistinctSeqs(RepoEntries, MaxRepoEntries)
    /\ QueueLength(config, repoTree) <= MaxFetches
    /\ c = NoPackage
    /\ importPc = "config"
    /\ importIdx = 1
    /\ rex = FALSE
    /\ treeLoads = 0
    /\ filtered = <<>>
    /\ filesToDownload = NoFiles
    /\ err = NoErr
    /\ errs = <<>>
    /\ wg = 0
    /\ fetchTask = <<>>
    /\ present \in SUBSET { Dst("templates", <<>>), Dst("templates", <<"t">>) }
    /\ presentAtStart = present
    /\ fetches = <<>>
    /\ importRet = NoErr

SpecImport == InitImport /\ [][NextImport]_vars

FannedOut == importPc = "returned" /\ fetchTask # <<>>

Reported == IF importRet = NoErr THEN <<>> ELSE importRet.errMsg

(***************************************************************************)
(* C3: when ImportFromRepo returns after the fan-out, the combined error   *)
(* holds exactly one message for each fetch that failed, under every       *)
(* interleaving, and the error is nil exactly when no fetch failed.        *)
(***************************************************************************)
C3_EveryFailureReportedOnce ==
    FannedOut =>
       LET failed == { k \in DOMAIN fetchTask : fetchTask[k].result # NoErr } IN
       /\ { Reported[i].task : i \in DOMAIN Reported } = failed
       /\ Len(Reported) = Cardinality(failed)
       /\ (importRet = NoErr) <=> (failed = {})

(***************************************************************************)
(* C6: with K queued pairs of which J destinations exist beforehand, one   *)
(* ImportFromRepo performs exactly K-J network fetches, none for a         *)
(* destination that exists and none twice for the same destination, for    *)
(* every fetch list it builds and every interleaving.                      *)
(***************************************************************************)
C6_FetchesOnlyMissing ==
    /\ \A i \in DOMAIN fetches : ~fetches[i].existed
    /\ \A i, j \in DOMAIN fetches : fetches[i].dst = fetches[j].dst => i = j
    /\ FannedOut =>
          Len(fetches) = numFiles -
              Cardinality({ k \in DOMAIN fetchTask : TaskDst(k) \in presentAtStart })

(***************************************************************************)
(* pickLabel applied to every name over a small alphabet.                  *)
(***************************************************************************)
NameChars == {"a", "B", "-", "_", ".", " ", "%", "2", "0"}

\* The names the documentation of the label heuristic works through.
MyCoolAppDashed == <<"m", "y", "-", "c", "o", "o", "l", "-", "a", "p", "p">>

MyCoolAppCamel == <<"M", "y", "C", "o", "o", "l", "A", "p", "p">>

ExampleNames == { MyCoolAppDashed, MyCoolAppCamel, <<"a", "b">>, <<"x">> }

\* Names of six parts, and names in which a later separator of the list
\* comes first in the text.
LongNames ==
    { <<"a", "-", "b", "-", "c", "-", "d", "-", "e", "-", "f">>,
      <<"A", "B", "C", "D", "E", "F">>,
      <<"a", ".", "b", "-", "c">>,
      <<"a", "%", "2", "0", "b", "_", "c", " ", "d">> }

Names == SeqsUpTo(NameChars, MaxNameLen) \cup ExampleNames \cup LongNames

PickLabelCall ==
    /\ labelPc = "ready"
    /\ labelOut' = pickLabel(labelName)
    /\ labelPc' = "called"
    /\ UNCHANGED labelName
    /\ UNCHANGED otherThanLabel

NextLabel == PickLabelCall

InitLabel ==
    /\ IdleLocal
    /\ IdleCreate
    /\ IdleColl
    /\ IdleImport
    /\ labelName \in Names
    /\ labelOut = [panic |-> FALSE, label |-> <<>>]
    /\ labelPc = "ready"

SpecLabel == InitLabel /\ [][NextLabel]_vars

(***************************************************************************)
(* C10: for every non-empty name, also one that begins or ends with a      *)
(* separator or has two adjacent separators, pickLabel returns, without    *)
(* failing, a non-empty label that has no uppercase letter.                *)
(***************************************************************************)
C10_PickLabelTotal ==
    (labelPc = "called" /\ Len(labelName) > 0) =>
       /\ ~labelOut.panic
       /\ Len(labelOut.label) > 0
       /\ \A i \in DOMAIN labelOut.label : ~IsUpper(labelOut.label[i])

(***************************************************************************)
(* C11: pickLabel returns "mca" for "my-cool-app", "mca" for "MyCoolApp",  *)
(* "ab" for "ab" and "x" for "x".                                          *)
(***************************************************************************)
C11_Examples ==
    (labelPc = "called" /\ ~labelOut.panic) =>
       /\ labelName = MyCoolAppDashed => labelOut.label = <<"m", "c", "a">>
       /\ labelName = MyCoolAppCamel => labelOut.label = <<"m", "c", "a">>
       /\ labelName = <<"a", "b">> => labelOut.label = <<"a", "b">>
       /\ labelName = <<"x">> => labelOut.label = <<"x">>

(***************************************************************************)
(* The tree filter/converter on its own: filterAndConvertTreeEntries with  *)
(* a GitHub or a GitLab importer.                                          *)
(***************************************************************************)
MaxFilters == 2

\* `if filters == nil { filters = make([]*regexp.Regexp, 0) }`
OrEmpty(filters) == IF filters.isNil THEN <<>> ELSE filters.list

\* The GitLab variant: the same loop over []*gl.TreeNode.
RECURSIVE filterAndConvertGLTreeEntries(_, _)
filterAndConvertGLTreeEntries(treeEntries, filters) ==
    IF treeEntries = <<>> THEN <<>>
    ELSE LET entry == Head(treeEntries)
             rest == filterAndConvertGLTreeEntries(Tail(treeEntries), filters)
         IN  IF SkipEntry(entry.Path, filters, FALSE) THEN rest
             ELSE <<[IsFile |-> entry.Type = "blob", Path |-> <<>>,
                     Destination |-> entry.Path]>> \o rest

filterAndConvertTreeEntries(importer, treeEntries, filters) ==
    CASE importer = "github" ->
            filterAndConvertGHTreeEntries(treeEntries, OrEmpty(filters))
      [] importer = "gitlab" ->
            filterAndConvertGLTreeEntries(treeEntries, OrEmpty(filters))

\* Tree entries: files, directories and a submodule; one path holds
\* templates/ in its middle.
FilterEntries ==
    { [Path |-> TemplatesDir \o <<"t">>,           Type |-> "blob"],
      [Path |-> TemplatesDir \o <<"u">>,           Type |-> "tree"],
      [Path |-> <<"v", "/">> \o TemplatesDir \o <<"w">>, Type |-> "blob"],
      [Path |-> ConfigsDir \o <<"a">>,             Type |-> "blob"],
      [Path |-> <<"R">>,                           Type |-> "commit"] }

FilterLists ==
    { [isNil |-> TRUE, list |-> <<>>] } \cup
    { [isNil |-> FALSE, list |-> l] :
         l \in DistinctSeqs({TemplatesDir, ConfigsDir}, MaxFilters) }

FilterCall ==
    /\ filtPc = "ready"
    /\ filtOut' = filterAndConvertTreeEntries(filtImporter, filtTree, filtFilters)
    /\ filtPc' = "called"
    /\ UNCHANGED <<filtImporter, filtTree, filtFilters>>
    /\ UNCHANGED otherThanFilter

NextFilter == FilterCall

InitFilter ==
    /\ IdleCreate
    /\ IdleLabel
    /\ IdleColl
    /\ IdleImport
    /\ IdleFolder
    /\ IdleConfig
    /\ filtImporter \in {"github", "gitlab"}
    /\ filtTree \in SeqsUpTo(FilterEntries, MaxTreeEntries)
    /\ filtFilters \in FilterLists
    /\ filtOut = <<>>
    /\ filtPc = "ready"

SpecFilter == InitFilter /\ [][NextFilter]_vars

\* The positions of the input entries the caller asked for.
Wanted ==
    { i \in DOMAIN filtTree :
         \/ filtFilters.list = <<>>
         \/ \E k \in DOMAIN filtFilters.list :
               \E a, b \in 0..Len(filtTree[i].Path) :
                  SubSeq(filtTree[i].Path, a + 1, b) = filtFilters.list[k] }

(***************************************************************************)
(* C12: the tree filter/converter returns, for a non-empty filter list,    *)
(* exactly the input entries whose path is matched somewhere by at least   *)
(* one filter, and for an empty or nil list every input entry; in input    *)
(* order, one Template per kept entry, with Destination the entry path,    *)
(* Path empty, and IsFile true exactly when the entry type is "blob".      *)
(***************************************************************************)
C12_FilterKeepsMatching ==
    filtPc = "called" =>
       /\ Len(filtOut) = Cardinality(Wanted)
       /\ \A i \in Wanted :
             LET k == Cardinality({ j \in Wanted : j <= i }) IN
             /\ filtOut[k].Destination = filtTree[i].Path
             /\ filtOut[k].Path = <<>>
             /\ filtOut[k].IsFile = (filtTree[i].Type = "blob")

\* A call with two filters that dropped an entry and kept, among others, a
\* directory and a path matched in its middle.
C12_Witness ==
    /\ filtPc = "called"
    /\ Len(filtFilters.list) = 2
    /\ Len(filtOut) = 2
    /\ Len(filtTree) = 3
    /\ ~filtOut[1].IsFile
    /\ filtOut[2].Destination = <<"v", "/">> \o TemplatesDir \o <<"w">>

(***************************************************************************)
(* Package.ImportFromFolderStructure.                                      *)
(***************************************************************************)
\* filepath.Base
Base(path) ==
    IF path = <<>> THEN <<".">>
    ELSE LET s == StripTrailingSlashes(path)
             slashes == { i \in DOMAIN s : s[i] = "/" }
             last == IF slashes = {} THEN 0
                     ELSE CHOOSE i \in slashes : \A j \in slashes : j <= i
         IN  IF s = <<"/">> THEN s ELSE SubSeq(s, last + 1, Len(s))

\* filepath.Join(dir, name), as filepath.Walk builds the path of a child.
JoinPath(dir, name) == Clean(dir \o <<"/">> \o name)

\* filepath.Rel(basepath, targpath) for a target below the base.
Rel(basepath, targpath) ==
    LET b == Clean(basepath)
        t == Clean(targpath)
    IN  IF b = t THEN <<".">>
        ELSE IF HasPrefix(t, b \o <<"/">>) THEN SubSeq(t, Len(b) + 2, Len(t))
        ELSE <<".", ".", "/">> \o t

\* The names a directory may hold, in the lexical order filepath.Walk
\* reads them in.
FolderNames == << <<"a">>, <<"n">> >>

\* The entry of the tree below root that the path currentPath names.
EntryAt(root, entries, currentPath) ==
    { r \in DOMAIN entries : r # <<>> /\ Clean(root \o <<"/">> \o r) = currentPath }

\* filepath.Walk below the directory dir, from its k-th name on, with the
\* callback of ImportFromFolderStructure: the Templates it appends.
RECURSIVE WalkDir(_, _, _, _, _)
WalkDir(root, entries, exclude, dir, k) ==
    IF k > Len(FolderNames) THEN <<>>
    ELSE LET currentPath == JoinPath(dir, FolderNames[k])
             rest == WalkDir(root, entries, exclude, dir, k + 1)
             hits == EntryAt(root, entries, currentPath)
         IN  IF hits = {} THEN rest
             ELSE LET r == CHOOSE q \in hits : TRUE
                      relPath == Rel(root, currentPath)
                  IN  IF entries[r] = "dir"
                      THEN IF Base(currentPath) \in exclude
                           THEN rest
                           ELSE <<[IsFile |-> FALSE, Path |-> <<>>,
                                   Destination |-> relPath]>>
                                \o WalkDir(root, entries, exclude, currentPath, 1)
                                \o rest
                      ELSE <<[IsFile |-> TRUE, Path |-> <<>>,
                              Destination |-> relPath]>> \o rest

\* util.DoesPathExist(path)
DoesPathExist(entries) == <<>> \in DOMAIN entries

FolderReturn(e) ==
    /\ folderRet' = e
    /\ folderPc' = "returned"

ImportFromFolderStructure ==
    /\ folderPc = "ready"
    /\ IF ~DoesPathExist(dirEntries)
       THEN /\ FolderReturn([kind |-> "notexist"])
            /\ UNCHANGED folderPkg
       ELSE LET base == Base(dirPath)
                picked == pickLabel(base)
                named == [folderPkg EXCEPT !.Name = base]
            IN  IF picked.panic
                THEN /\ folderPkg' = named
                     /\ folderPc' = "panicked"
                     /\ folderRet' = [kind |-> "panic"]
                ELSE LET walked == WalkDir(dirPath, dirEntries, excludeDirs, dirPath, 1)
                         filled == [named EXCEPT !.Label = picked.label,
                                                 !.Templates = @ \o walked]
                     IN  /\ folderPkg' = filled
                         /\ FolderReturn(IF isEmpty(filled)
                                         THEN [kind |-> "empty"] ELSE NoErr)
    /\ UNCHANGED <<dirPath, dirEntries, excludeDirs>>
    /\ UNCHANGED otherThanFolder

NextFolder == ImportFromFolderStructure

\* Relative paths of the entries a tree may hold, two levels deep.
FolderPaths ==
    { FolderNames[i] : i \in DOMAIN FolderNames } \cup
    { FolderNames[i] \o <<"/">> \o FolderNames[j] :
         i \in DOMAIN FolderNames, j \in DOMAIN FolderNames }

ParentOf(r) ==
    LET slashes == { i \in DOMAIN r : r[i] = "/" } IN
    IF slashes = {} THEN <<>>
    ELSE SubSeq(r, 1, (CHOOSE i \in slashes : \A j \in slashes : j <= i) - 1)

\* The directory trees: the root (the empty relative path) is a directory
\* and every entry lies in a directory of the tree.
Trees ==
    { t \in UNION { [S \cup {<<>>} -> {"file", "dir"}] : S \in SUBSET FolderPaths } :
         /\ t[<<>>] = "dir"
         /\ \A r \in DOMAIN t \ {<<>>} :
               ParentOf(r) \in DOMAIN t /\ t[ParentOf(r)] = "dir" }

\* Values of the path argument: a plain name, the same with a trailing
\* slash, a name with a separator, and the parent directory.
FolderRoots == { <<"d">>, <<"d", "/">>, <<"a", "-", "b">>, <<".", ".">> }

InitFolder ==
    /\ IdleCreate
    /\ IdleLabel
    /\ IdleColl
    /\ IdleImport
    /\ IdleFilter
    /\ IdleConfig
    /\ dirPath \in FolderRoots
    /\ dirEntries \in Trees \cup {<<>>}
    /\ excludeDirs \in SUBSET { FolderNames[i] : i \in DOMAIN FolderNames }
    /\ folderPkg = EmptyPackage
    /\ folderRet = NoErr
    /\ folderPc = "ready"

SpecFolder == InitFolder /\ [][NextFolder]_vars

\* The entries of the imported tree other than its root.
NonRoot == DOMAIN dirEntries \ {<<>>}

\* The last name of a relative path.
NameOf(r) == SubSeq(r, Len(ParentOf(r)) + (IF ParentOf(r) = <<>> THEN 1 ELSE 2), Len(r))

\* The directories of the tree that the exclusion set names.
Excluded == { q \in NonRoot : dirEntries[q] = "dir" /\ NameOf(q) \in excludeDirs }

\* The entries in or below an excluded directory.
Pruned ==
    { r \in NonRoot : \E q \in Excluded : r = q \/ HasPrefix(r, q \o <<"/">>) }

FolderImportOver == folderPc \in {"returned", "panicked"}

(***************************************************************************)
(* C13: ImportFromFolderStructure on an existing directory that holds N    *)
(* files and M subdirectories at any depth, none of them excluded, yields  *)
(* exactly N+M Templates: one per entry other than the root, with empty    *)
(* Path, Destination the entry's path relative to the root and IsFile true *)
(* exactly for the files; with N+M = 0 it returns an error.                *)
(***************************************************************************)
C13_OneTemplatePerEntry ==
    (FolderImportOver /\ DoesPathExist(dirEntries) /\ Excluded = {}) =>
       IF NonRoot = {}
       THEN folderPc = "returned" /\ folderRet # NoErr
       ELSE /\ folderPc = "returned"
            /\ folderRet = NoErr
            /\ Len(folderPkg.Templates) = Cardinality(NonRoot)
            /\ \A r \in NonRoot :
                  \E k \in DOMAIN folderPkg.Templates :
                     folderPkg.Templates[k] =
                        [IsFile |-> dirEntries[r] = "file", Path |-> <<>>,
                         Destination |-> r]

(***************************************************************************)
(* C14: a subdirectory whose base name is in the exclusion set is pruned   *)
(* entirely: neither it nor any entry beneath it appears as a Template,    *)
(* while every other entry of the tree but the root does appear; a regular *)
(* file whose name is in the exclusion set is not excluded.                *)
(***************************************************************************)
C14_ExcludedSubtreesPruned ==
    (FolderImportOver /\ DoesPathExist(dirEntries)) =>
       { folderPkg.Templates[k].Destination : k \in DOMAIN folderPkg.Templates }
          = NonRoot \ Pruned

(***************************************************************************)
(* Package.ImportFromConfig.                                               *)
(***************************************************************************)
\* strings.HasSuffix
HasSuffix(s, suffix) ==
    /\ Len(suffix) <= Len(s)
    /\ SubSeq(s, Len(s) - Len(suffix) + 1, Len(s)) = suffix

DotToml == <<".", "t", "o", "m", "l">>

ConfError(kind) == [kind |-> kind]

\* A size test that is never true: an empty file goes on to the decoder.
ConfigIsEmptyNever(file) == FALSE

\* `conf.Size() == 0`
ConfigIsEmpty(file) == file.size = 0

\* file.Unmarshal(c): the keys the file holds are stored in c, the fields
\* it does not mention keep their value.
Unmarshal(pkg, decoded) ==
    [f \in DOMAIN pkg |-> IF decoded[f] = <<>> THEN pkg[f] ELSE decoded[f]]

\* The checks after decoding with the label looked at before the name.
ValidateLabelFirst(pkg) ==
    IF Len(pkg.Label) < 1 THEN ConfError("label")
    ELSE IF Len(pkg.Name) < 1 THEN ConfError("name")
    ELSE IF isEmpty(pkg) THEN ConfError("noData")
    ELSE NoErr

\* The checks after decoding: name, label, isEmpty.
Validate(pkg) ==
    IF Len(pkg.Name) < 1 THEN ConfError("name")
    ELSE IF Len(pkg.Label) < 1 THEN ConfError("label")
    ELSE IF isEmpty(pkg) THEN ConfError("noData")
    ELSE NoErr

ConfigReturn(e) ==
    /\ confRet' = e
    /\ confPc' = "returned"

ImportFromConfig ==
    /\ confPc = "ready"
    /\ IF ~HasSuffix(confPath, DotToml)
       THEN ConfigReturn(ConfError("notToml")) /\ UNCHANGED confPkg
       ELSE IF confPath \notin DOMAIN confFiles
       THEN ConfigReturn(ConfError("stat")) /\ UNCHANGED confPkg
       ELSE LET file == confFiles[confPath] IN
            IF ConfigIsEmpty(file)
            THEN ConfigReturn(ConfError("emptyFile")) /\ UNCHANGED confPkg
            ELSE IF ~file.wellFormed
            THEN ConfigReturn(ConfError("load")) /\ UNCHANGED confPkg
            ELSE IF ~file.fits
            THEN ConfigReturn(ConfError("unmarshal")) /\ UNCHANGED confPkg
            ELSE LET filled == Unmarshal(confPkg, file.decoded) IN
                 /\ confPkg' = filled
                 /\ ConfigReturn(Validate(filled))
    /\ UNCHANGED <<confPath, confFiles, confBefore>>
    /\ UNCHANGED otherThanConfig

NextConfig == ImportFromConfig

ConfigPaths ==
    { <<"c">> \o DotToml, DotToml, <<"c", ".", "t", "o", "m">>, <<"t", "o", "m", "l">> }

ConfTemplate == [IsFile |-> TRUE, Path |-> <<>>, Destination |-> <<"R">>]

ConfPlugin == [Name |-> <<"h">>, ExecNumber |-> 1]

\* What a well-formed file of the Package shape decodes to.
Decodings ==
    [Name : {<<>>, <<"n">>}, Label : {<<>>, <<"l">>},
     Templates : {<<>>, <<ConfTemplate>>}, Plugins : {<<>>, <<ConfPlugin>>}]

\* The files: the empty one, one that is not TOML, one that is TOML of
\* another shape, and the ones that decode.
ConfigFiles ==
    { [size |-> 0, wellFormed |-> TRUE, fits |-> TRUE, decoded |-> EmptyPackage],
      [size |-> 1, wellFormed |-> FALSE, fits |-> FALSE, decoded |-> EmptyPackage],
      [size |-> 1, wellFormed |-> TRUE, fits |-> FALSE, decoded |-> EmptyPackage] }
    \cup { [size |-> 1, wellFormed |-> TRUE, fits |-> TRUE, decoded |-> d] :
              d \in Decodings \ {EmptyPackage} }

\* A receiver that already holds a package.
PresetPackage ==
    [Name |-> <<"o">>, Label |-> <<"o">>, Templates |-> <<ConfTemplate>>,
     Plugins |-> <<>>]

InitConfig ==
    /\ IdleCreate
    /\ IdleLabel
    /\ IdleColl
    /\ IdleImport
    /\ IdleFilter
    /\ IdleFolder
    /\ confPath \in ConfigPaths
    /\ \/ confFiles = <<>>
       \/ \E f \in ConfigFiles : confFiles = Put(<<>>, confPath, f)
    /\ confPkg \in {EmptyPackage, PresetPackage}
    /\ confBefore = confPkg
    /\ confRet = NoErr
    /\ confPc = "ready"

SpecConfig == InitConfig /\ [][NextConfig]_vars

(***************************************************************************)
(* C15: ImportFromConfig on an empty (zero-length) file returns a non-nil  *)
(* error and leaves the receiving Package exactly as it was before the     *)
(* call.                                                                   *)
(***************************************************************************)
C15_EmptyFileRefused ==
    (/\ confPc = "returned"
     /\ confPath \in DOMAIN confFiles
     /\ confFiles[confPath].size = 0) =>
       /\ confRet # NoErr
       /\ confPkg = confBefore

\* An empty .toml file was offered to a receiver that already held a
\* complete package.
C15_Witness ==
    /\ confPc = "returned"
    /\ HasSuffix(confPath, DotToml)
    /\ confPath \in DOMAIN confFiles
    /\ confFiles[confPath].size = 0
    /\ confBefore = PresetPackage
    /\ confRet.kind = "emptyFile"

\* The conditions of a successful import, in the order they are required.
ConfChecks ==
    << [ok |-> HasSuffix(confPath, DotToml), kinds |-> {"notToml"}],
       [ok |-> confPath \in DOMAIN confFiles, kinds |-> {"stat"}],
       [ok |-> confPath \in DOMAIN confFiles /\ confFiles[confPath].size > 0,
        kinds |-> {"emptyFile"}],
       [ok |-> confPath \in DOMAIN confFiles /\ confFiles[confPath].wellFormed
                  /\ confFiles[confPath].fits,
        kinds |-> {"load", "unmarshal"}],
       [ok |-> confPkg.Name # <<>>, kinds |-> {"name"}],
       [ok |-> confPkg.Label # <<>>, kinds |-> {"label"}],
       [ok |-> confPkg.Templates # <<>> \/ confPkg.Plugins # <<>>,
        kinds |-> {"noData"}] >>

(***************************************************************************)
(* C16: ImportFromConfig returns success only if the path ends in .toml,   *)
(* the file exists and is non-empty, it decodes into the Package shape,    *)
(* the resulting Name and Label are non-empty and the package has at least *)
(* one Template or Plugin; if one of these fails it returns an error, and  *)
(* the first check that fails, in that order, determines the error.        *)
(***************************************************************************)
C16_FirstFailingCheck ==
    confPc = "returned" =>
       /\ confRet = NoErr <=> \A i \in DOMAIN ConfChecks : ConfChecks[i].ok
       /\ \A i \in DOMAIN ConfChecks :
             (~ConfChecks[i].ok /\ \A j \in 1..(i - 1) : ConfChecks[j].ok)
                => confRet.kind \in ConfChecks[i].kinds

\* A file that decoded to a name with neither label nor data: the label
\* check, the first to fail, gave the error.
C16_Witness ==
    /\ confPc = "returned"
    /\ confBefore = EmptyPackage
    /\ confPkg.Name # <<>>
    /\ confPkg.Label = <<>>
    /\ isEmpty(confPkg)
    /\ confRet.kind = "label"

\* The call p is past its first step and did not create the project root.
RootNotCreated(p) ==
    /\ pc[p] \notin {"idle", "mkdir"}
    /\ \A k \in DOMAIN log[p] : log[p][k].kind # "mkdir"

(***************************************************************************)
(* C17: if the project root directory cannot be created (for example it    *)
(* already exists), Project.Create returns the error without changing the  *)
(* process working directory, without executing any plugin and without     *)
(* writing any template.                                                   *)
(***************************************************************************)
C17_MkdirFailureStopsCreate ==
    \A p \in Procs :
       RootNotCreated(p) =>
          /\ pc[p] = "done"
          /\ ret[p].kind = "mkdir"
          /\ wd = origWd
          /\ log[p] = <<>>
          /\ fs = Put(Put(<<>>, origWd, Dir), ProjectRoot(p), Dir)

\* Create was called for a project whose folder was there already, with
\* a pre-hook and a template to write.
C17_Witness ==
    /\ RootNotCreated(1)
    /\ ret[1].kind = "mkdir"
    /\ \E k \in DOMAIN plugins : IsPreHook(plugins[k])
    /\ templates # <<>>

(***************************************************************************)
(* C18: in the fan-outs no task reads or writes a variable that a sibling  *)
(* task writes; a task's outcome reaches the orchestrator only through the *)
(* channels.  For the fetch tasks of ImportFromRepo: the error a task is   *)
(* about to test and report is the result of its own download.             *)
(***************************************************************************)
C18_NoSharedResult ==
    \A k \in DOMAIN fetchTask :
       fetchTask[k].pc = "check" => err = fetchTask[k].result

\* The first loop over c.Templates is running or has just ended: the
\* templates list holds what that loop queued and nothing else.
QueueingOnly == importPc \in {"queue", "prepare"}

(***************************************************************************)
(* C19: a remote entry under templates/ is queued on behalf of a declared  *)
(* Template only if its path, with templates/ stripped, starts with that   *)
(* Template's declared Path: an entry whose stripped path starts with no   *)
(* declared non-empty Path is never queued by this mechanism.              *)
(***************************************************************************)
C19_QueuedUnderDeclaredPath ==
    QueueingOnly =>
       \A i \in DOMAIN filesToDownload.templates :
          \E j \in DOMAIN c.Templates :
             /\ c.Templates[j].Path # <<>>
             /\ HasPrefix(filesToDownload.templates[i], c.Templates[j].Path)

(***************************************************************************)
(* C20: the remote entries considered as template dependencies are exactly *)
(* the tree entries whose path begins with templates/, and the relative    *)
(* path queued for each is the entry's path with that leading templates/   *)
(* removed, so that templates/<relative path> is the entry's own path.     *)
(***************************************************************************)
C20_EntriesUnderTemplatesPrefix ==
    /\ \A i \in DOMAIN filtered : HasPrefix(filtered[i].Destination, TemplatesDir)
    /\ filtered # <<>> =>
          \A j \in DOMAIN repoTree :
             HasPrefix(repoTree[j].Path, TemplatesDir) =>
                \E i \in DOMAIN filtered : filtered[i].Destination = repoTree[j].Path
    /\ QueueingOnly =>
          \A i \in DOMAIN filesToDownload.templates :
             \E j \in DOMAIN repoTree :
                repoTree[j].Path = TemplatesDir \o filesToDownload.templates[i]

(***************************************************************************)
(* Package.ImportFromRepo against a local store that already holds the     *)
(* template files, from a repository of at most one entry: only the       *)
(* plugin may be missing, so that longer fetch lists stay within reach.    *)
(***************************************************************************)
MaxStoredFetches == 4

\* Every destination an import of these configs and trees can queue.
StoredFiles ==
    { Dst("templates", <<>>), Dst("templates", <<"t">>), Dst("templates", <<"u">>),
      Dst("templates", <<"s", "/", "w">>), Dst("plugins", <<"h">>) }

InitImportStored ==
    /\ IdleLocal
    /\ IdleCreate
    /\ IdleLabel
    /\ IdleColl
    /\ config \in [Templates : SeqsUpTo(DeclaredTemplates, MaxDeclared),
                   Plugins : SeqsUpTo(DeclaredPlugins, 1)]
    /\ repoTree \in {<<>>} \cup { <<e>> : e \in RepoEntries }
    /\ QueueLength(config, repoTree) <= MaxStoredFetches
    /\ c = NoPackage
    /\ importPc = "config"
    /\ importIdx = 1
    /\ rex = FALSE
    /\ treeLoads = 0
    /\ filtered = <<>>
    /\ filesToDownload = NoFiles
    /\ err = NoErr
    /\ errs = <<>>
    /\ wg = 0
    /\ fetchTask = <<>>
    /\ \E missing \in SUBSET { Dst("plugins", <<"h">>) } :
          present = StoredFiles \ missing
    /\ presentAtStart = present
    /\ fetches = <<>>
    /\ importRet = NoErr

SpecImportStored == InitImportStored /\ [][NextImport]_vars

(***************************************************************************)
(* C21: during one ImportFromRepo operation the remote tree is loaded at   *)
(* most once, however many Templates have a non-empty Path, and it is not  *)
(* loaded at all when no Template has a non-empty Path.                    *)
(***************************************************************************)
C21_TreeLoadedAtMostOnce ==
    /\ treeLoads <= 1
    /\ (\A i \in DOMAIN c.Templates : c.Templates[i].Path = <<>>) => treeLoads = 0

\* Two templates with a Path have both been through the loop and the tree
\* was loaded once.
C21_Witness ==
    /\ Len(c.Templates) = 2
    /\ \A i \in DOMAIN c.Templates : c.Templates[i].Path # <<>>
    /\ importIdx > 2
    /\ treeLoads = 1

\* The remote config declares a template with a Path and the repository
\* tree has no entry whose path begins with templates/.
DeclaredButAbsent ==
    /\ \E i \in DOMAIN config.Templates : config.Templates[i].Path # <<>>
    /\ \A j \in DOMAIN repoTree : ~HasPrefix(repoTree[j].Path, TemplatesDir)

NoFetchStarted == fetchTask = <<>> /\ fetches = <<>>

(***************************************************************************)
(* C22: if the imported config declares a Template with a non-empty Path   *)
(* and the repository tree has no entry under templates/, ImportFromRepo   *)
(* returns an error and starts no template or plugin fetch task; likewise  *)
(* a failure of the config download, of the config import or of the tree   *)
(* load returns at once with no dependency fetch started.                  *)
(***************************************************************************)
C22_FailsBeforeFetching ==
    /\ DeclaredButAbsent =>
          /\ importPc \notin {"prepare", "spawn", "wait"}
          /\ NoFetchStarted
          /\ importPc = "returned" => importRet # NoErr
    /\ (importPc = "returned"
          /\ importRet.kind \in {"config", "import", "load", "notemplates"})
          => NoFetchStarted

\* The template-writing steps a call has taken, in order.
Writes(p) == SelectSeq(log[p], LAMBDA e : e.kind = "write")

\* The last thing the call p did was to write a template, with success.
JustWrote(p) ==
    /\ log[p] # <<>>
    /\ log[p][Len(log[p])].kind = "write"
    /\ log[p][Len(log[p])].ok

(***************************************************************************)
(* C23: in the template-writing phase of Project.Create the templates are  *)
(* processed in stored order; a copy from the template store happens       *)
(* exactly when Path is non-empty; after the step, when IsFile is true the *)
(* file at Destination exists and is empty (also when content was just     *)
(* copied there), and when IsFile is false the directory at Destination    *)
(* and its missing parents exist; the first failure stops the phase and    *)
(* the entries written before it stay in place.                            *)
(***************************************************************************)
C23_TemplatesWrittenInOrder ==
    LET w == Writes(1) IN
    /\ \A k \in DOMAIN w :
          /\ w[k].i = k
          /\ (w[k].copy # "none") <=> (Len(templates[k].Path) > 0)
          /\ k < Len(w) => w[k].ok
          /\ w[k].ok => w[k].path \in DOMAIN fs
    /\ JustWrote(1) =>
          LET e == log[1][Len(log[1])]
              t == templates[e.i]
          IN  IF t.IsFile
              THEN fs[e.path] = EmptyFile
              ELSE \A a \in Parents(t.Destination) \cup {t.Destination} :
                      /\ Resolve(e.wd, a) \in DOMAIN fs
                      /\ fs[Resolve(e.wd, a)] = Dir

\* The first template made a folder below a parent that was missing; the
\* second, a file with a Path, was copied and then emptied.
C23_Witness ==
    /\ JustWrote(1)
    /\ Len(Writes(1)) = 2
    /\ Writes(1)[2].copy = "file"
    /\ templates[2].IsFile
    /\ ~templates[1].IsFile
    /\ Parents(templates[1].Destination) # {}
    /\ fs[Writes(1)[2].path] = EmptyFile

\* The scheduler runs every goroutine that can take a step, and every
\* fetch terminates.
SpecImportStoredFair == SpecImportStored /\ WF_vars(NextImport)

Unfinished == { k \in DOMAIN fetchTask : fetchTask[k].pc # "finished" }

\* What holds of the join while the tasks run.
JoinDiscipline ==
    /\ importPc = "wait" =>
          /\ wg = Cardinality(Unfinished)
          /\ Len(errs) <= Cardinality(DOMAIN fetchTask \ Unfinished)
          /\ Len(errs) <= numFiles
          /\ \A k \in DOMAIN fetchTask :
                (fetchTask[k].pc = "check" /\ err # NoErr) => Len(errs) < numFiles
    /\ FannedOut => Unfinished = {}

(***************************************************************************)
(* C24: ImportFromRepo inspects the fetch results only after every queued  *)
(* fetch task has finished, and it always gets there: it waits for as many *)
(* tasks as it starts, each task sends at most one error into a channel    *)
(* whose capacity is the number of tasks, so no task blocks on reporting   *)
(* and, when every fetch terminates, the join is passed and the call       *)
(* returns.                                                                *)
(***************************************************************************)
C24_JoinAfterAllTasks == []JoinDiscipline /\ <>(importPc = "returned")

\* The call returned after four tasks, one of which failed to fetch.
C24_Witness ==
    /\ FannedOut
    /\ Len(fetchTask) = 4
    /\ \E i \in DOMAIN fetches : ~fetches[i].ok
    /\ importRet # NoErr

\* The separators of the list that occur in the name, by position in the list.
Occurring(name) ==
    { k \in DOMAIN labelSeparators : IndexOf(name, labelSeparators[k]) # 0 }

\* The name cut at the first separator of the list that occurs in it.
PartsByFirstSeparator(name) ==
    LET k == CHOOSE a \in Occurring(name) : \A b \in Occurring(name) : a <= b
    IN  Split(name, labelSeparators[k])

(***************************************************************************)
(* C25: when the name contains one or more of the separators, pickLabel    *)
(* splits by the first separator in the order "-", "_", ".", " ", "%20"    *)
(* that occurs in the name (also when a later separator occurs earlier in  *)
(* the text), and the label is the lowercased first characters of at most  *)
(* the first 5 resulting parts; parts beyond the fifth never contribute.   *)
(***************************************************************************)
C25_SplitByFirstSeparator ==
    (labelPc = "called" /\ Len(labelName) >= 2 /\ Occurring(labelName) # {}) =>
       LET parts == PartsByFirstSeparator(labelName)
           n == IF Len(parts) > 5 THEN 5 ELSE Len(parts)
       IN  /\ ~labelOut.panic
           /\ Len(labelOut.label) = n
           /\ \A i \in 1..n :
                 /\ parts[i] # <<>>
                 /\ labelOut.label[i] = ToLowerChar(parts[i][1])

\* pickLabel took the first, middle and last byte: no separator, and no
\* uppercase letter after the first byte.
OnFallbackPath ==
    /\ Len(labelName) >= 2
    /\ Occurring(labelName) = {}
    /\ \A i \in 2..Len(labelName) : ~IsUpper(labelName[i])

(***************************************************************************)
(* C26: every label that pickLabel returns is at most 5 characters long,   *)
(* exactly 3 on the first/middle/last fallback path, and equal to the      *)
(* lowercased name when the name has fewer than 2 characters.              *)
(***************************************************************************)
C26_LabelAtMostFive ==
    (labelPc = "called" /\ ~labelOut.panic) =>
       /\ Len(labelOut.label) <= 5
       /\ OnFallbackPath => Len(labelOut.label) = 3
       /\ Len(labelName) < 2 => labelOut.label = ToLower(labelName)

\* A name of six parts gave a label of five characters.
C26_Witness ==
    /\ labelPc = "called"
    /\ ~labelOut.panic
    /\ Occurring(labelName) # {}
    /\ Len(PartsByFirstSeparator(labelName)) = 6
    /\ Len(labelOut.label) = 5

====
